---- MODULE Spec2Model ----
(***************************************************************************)
(* Model of app.py: the FastAPI wrapper around yt-dlp.  The state is the   *)
(* file system the service owns (temp_downloads/<uuid> directories, the    *)
(* stored cookie file), the background cleanup tasks of the event loop,    *)
(* the request handler in flight and the last response sent.               *)
(***************************************************************************)
EXTENDS Integers, Sequences, FiniteSets, TLC

\* ---- bounds ----
MaxDownloads == 2
TickStep == 20

\* ---- program constants ----
CLEANUP_DELAY == 60
COOKIE_PATH == "cookies/youtube_cookies.txt"
SIGN_IN == <<"Sign", "in", "to", "confirm">>
AUTH_DETAIL == <<"YouTube requires authentication. Please extract cookies using /cookies/extract or upload them via /cookies/upload">>
FILE_NOT_FOUND_DETAIL == <<"Download completed but file not found">>
NO_STREAM_DETAIL == <<"No suitable audio stream found">>
ExtractBrowsers == <<"firefox", "edge", "chrome", "safari">>
DirectBrowsers == <<"firefox", "edge", "safari">>

\* ---- values ----
None == "<None>"
NoFile == <<>>
UploadedFile == <<"uploaded">>
Ids == 1..MaxDownloads
BrowserNames == {ExtractBrowsers[i] : i \in 1..Len(ExtractBrowsers)}
BrowserStates == {"error", "empty", "cookies"}
\* what each browser's cookie store answers: the stores opened before the
\* first one that yields cookies all raise or all are empty, the stores after
\* it are never opened
BrowserEnvs ==
  { env \in [BrowserNames -> BrowserStates] :
      \A i \in 1..Len(ExtractBrowsers) : \A j \in (i + 1)..Len(ExtractBrowsers) :
        /\ env[ExtractBrowsers[i]] = "cookies" => env[ExtractBrowsers[j]] = "error"
        /\ env[ExtractBrowsers[j]] # "cookies" => env[ExtractBrowsers[i]] = env[ExtractBrowsers[j]] }

\* error texts the extraction library raises (tokenised str(e))
ErrorTexts ==
  { <<"ERROR:", "Sign", "in", "to", "confirm", "you", "are", "not", "a", "bot">>,
    <<"Sign", "in", "to", "confirm">>,
    <<"ERROR:", "Sign", "in", "to", "view">>,
    <<"ERROR:", "Video", "unavailable">> }

\* entries of info['formats']
AudioA == [acodec |-> "opus", vcodec |-> "none", url |-> "u1"]
AudioB == [acodec |-> "mp4a", vcodec |-> "none", url |-> "u2"]
AudioNoUrl == [acodec |-> "opus", vcodec |-> "none", url |-> None]
AudioNoCodecKey == [acodec |-> None, vcodec |-> "none", url |-> "u3"]
VideoOnly == [acodec |-> "none", vcodec |-> "avc1", url |-> "u4"]
Muxed == [acodec |-> "mp4a", vcodec |-> "avc1", url |-> "u5"]
NoVcodecKey == [acodec |-> "opus", vcodec |-> None, url |-> "u6"]
FormatLists ==
  { <<>>, <<VideoOnly>>, <<AudioA>>, <<AudioNoUrl>>, <<VideoOnly, AudioA>>,
    <<Muxed, AudioB>>, <<AudioA, AudioB>>, <<AudioNoUrl, AudioA>>,
    <<NoVcodecKey, AudioNoCodecKey>>, <<VideoOnly, Muxed>> }

VARIABLES serverUp, nextId, dirs, files, task, waited, removedBy,
          cookieFile, pc, cur, opts, call, resp

vars == <<serverUp, nextId, dirs, files, task, waited, removedBy,
          cookieFile, pc, cur, opts, call, resp>>

\* ---- helpers ----
Min(a, b) == IF a < b THEN a ELSE b

\* base_opts[k] = v
DictSet(d, k, v) == [x \in (DOMAIN d) \cup {k} |-> IF x = k THEN v ELSE d[x]]

\* Python: needle in text
Contains(needle, text) ==
  \E i \in 0..(Len(text) - Len(needle)) : SubSeq(text, i + 1, i + Len(needle)) = needle

\* str(HTTPException): "<status_code>: <detail>"
HTTPExceptionStr(status, detail) == <<ToString(status) \o ":">> \o detail

NoOpts == [none |-> "none"]
NoCall == [use_cookies |-> FALSE, fileBefore |-> NoFile, reads |-> {},
           extractOK |-> FALSE, anyDirect |-> FALSE]
NoCur == [endpoint |-> "none", dir |-> 0]
NoResp == [endpoint |-> "none", status |-> 0, cause |-> "none", detail |-> <<>>,
           errtext |-> <<>>, formats |-> <<>>, url |-> None, dir |-> 0]

InfoBaseOpts == [quiet |-> "True", no_warnings |-> "True"]
StreamBaseOpts == [format |-> "bestaudio/best", quiet |-> "True", no_warnings |-> "True"]
DownloadBaseOpts == [format |-> "worst", outtmpl |-> "%(title)s.%(ext)s",
                     postprocessors |-> "FFmpegExtractAudio",
                     quiet |-> "False", no_warnings |-> "False"]

\* ---- cookie sources ----
RECURSIVE ExtractFrom(_, _, _, _)
ExtractFrom(i, env, file, reads) ==
  IF i > Len(ExtractBrowsers)
  THEN [ok |-> FALSE, file |-> file, reads |-> reads]
  ELSE LET b == ExtractBrowsers[i] IN
       IF env[b] = "cookies"
       THEN [ok |-> TRUE, file |-> <<"netscape", b>>, reads |-> reads \cup {b}]
       ELSE ExtractFrom(i + 1, env, file, reads \cup {b})

extract_browser_cookies_to_file(env, file) == ExtractFrom(1, env, file, {})

\* a dict item assignment of a tuple cannot raise
DictStoreRaises == FALSE

RECURSIVE DirectFrom(_, _)
DirectFrom(i, base) ==
  IF i > Len(DirectBrowsers)
  THEN base
  ELSE IF DictStoreRaises
       THEN DirectFrom(i + 1, base)
       ELSE DictSet(base, "cookiesfrombrowser", <<DirectBrowsers[i]>>)

\* variant: browser extraction is tried before the stored cookie file
get_ydl_opts_extract_first(base, use_cookies, file, env) ==
  IF ~use_cookies
  THEN [opts |-> base, file |-> file, reads |-> {}, extractOK |-> FALSE]
  ELSE LET x == extract_browser_cookies_to_file(env, file) IN
       IF x.ok
       THEN [opts |-> DictSet(base, "cookiefile", COOKIE_PATH), file |-> x.file,
             reads |-> x.reads, extractOK |-> TRUE]
       ELSE IF file # NoFile
       THEN [opts |-> DictSet(base, "cookiefile", COOKIE_PATH), file |-> file,
             reads |-> x.reads, extractOK |-> FALSE]
       ELSE [opts |-> DirectFrom(1, base), file |-> x.file,
             reads |-> x.reads, extractOK |-> FALSE]

get_ydl_opts_with_cookies(base, use_cookies, file, env) ==
  IF ~use_cookies
  THEN [opts |-> base, file |-> file, reads |-> {}, extractOK |-> FALSE]
  ELSE IF file # NoFile
  THEN [opts |-> DictSet(base, "cookiefile", COOKIE_PATH), file |-> file,
        reads |-> {}, extractOK |-> FALSE]
  ELSE LET x == extract_browser_cookies_to_file(env, file) IN
       IF x.ok
       THEN [opts |-> DictSet(base, "cookiefile", COOKIE_PATH), file |-> x.file,
             reads |-> x.reads, extractOK |-> TRUE]
       ELSE [opts |-> DirectFrom(1, base), file |-> x.file,
             reads |-> x.reads, extractOK |-> FALSE]

\* variant: the authentication case is not told apart
ErrorStatus_always_400(text) == 400

\* the except clause shared by /info, /download and /stream
ErrorStatus(text) == IF Contains(SIGN_IN, text) THEN 401 ELSE 400

ErrorDetail(prefix, text) ==
  IF Contains(SIGN_IN, text) THEN AUTH_DETAIL ELSE <<prefix>> \o text

\* the for loop of stream_audio: url of the first audio-only format
RECURSIVE FindAudioUrl(_, _)
FindAudioUrl(formats, i) ==
  IF i > Len(formats)
  THEN None
  ELSE IF formats[i].acodec # "none" /\ formats[i].vcodec = "none"
       THEN formats[i].url
       ELSE FindAudioUrl(formats, i + 1)

\* ---- initial state: process not started, nothing on disk ----
Init ==
  /\ serverUp = FALSE
  /\ nextId = 0
  /\ dirs = {}
  /\ files = {}
  /\ task = [d \in Ids |-> "none"]
  /\ waited = [d \in Ids |-> 0]
  /\ removedBy = [d \in Ids |-> "none"]
  /\ cookieFile = NoFile
  /\ pc = "idle"
  /\ cur = NoCur
  /\ opts = NoOpts
  /\ call = NoCall
  /\ resp = NoResp

\* ---- process lifecycle ----
\* variant: the startup loop skips directories
startup_event_keeps_dirs ==
  /\ ~serverUp
  /\ serverUp' = TRUE
  /\ UNCHANGED <<dirs, files, removedBy>>
  /\ UNCHANGED <<nextId, task, waited, cookieFile, pc, cur, opts, call, resp>>

startup_event ==
  /\ ~serverUp
  /\ serverUp' = TRUE
  /\ dirs' = {}
  /\ files' = {}
  /\ removedBy' = [d \in Ids |-> IF d \in dirs THEN "startup" ELSE removedBy[d]]
  /\ UNCHANGED <<nextId, task, waited, cookieFile, pc, cur, opts, call, resp>>

\* the process stops: the handler in flight and sleeping tasks die with it
Stop ==
  /\ serverUp
  /\ serverUp' = FALSE
  /\ task' = [d \in Ids |-> IF task[d] = "sleeping" THEN "lost" ELSE task[d]]
  /\ waited' = [d \in Ids |-> 0]
  /\ pc' = "idle"
  /\ cur' = NoCur
  /\ opts' = NoOpts
  /\ call' = NoCall
  /\ resp' = NoResp
  /\ UNCHANGED <<nextId, dirs, files, removedBy, cookieFile>>

\* ---- the call of get_ydl_opts_with_cookies that opens a handler ----
\* The browser stores are an input of the call only on the paths that reach
\* extract_browser_cookies_to_file; elsewhere every store holds cookies, so
\* that a read that should not happen would show.
UnreadEnv == [b \in BrowserNames |-> "cookies"]

EnvInputs(use_cookies) ==
  IF use_cookies /\ cookieFile = NoFile THEN BrowserEnvs ELSE {UnreadEnv}

\* whether yt-dlp could open some browser's store directly: a fact of the
\* environment the function never tests, drawn where the last resort is reached
DirectInputs(use_cookies, r) ==
  IF use_cookies /\ cookieFile = NoFile /\ ~r.extractOK THEN BOOLEAN ELSE {TRUE}

CallGetOpts(base) ==
  \E use_cookies \in BOOLEAN :
    \E env \in EnvInputs(use_cookies) :
      LET r == get_ydl_opts_with_cookies(base, use_cookies, cookieFile, env) IN
      \E anyDirect \in DirectInputs(use_cookies, r) :
        /\ opts' = r.opts
        /\ cookieFile' = r.file
        /\ call' = [use_cookies |-> use_cookies, fileBefore |-> cookieFile,
                    reads |-> r.reads, extractOK |-> r.extractOK,
                    anyDirect |-> anyDirect]

Finish(r) ==
  /\ resp' = r
  /\ pc' = "idle"
  /\ cur' = NoCur
  /\ opts' = NoOpts
  /\ call' = NoCall

\* ---- POST /info ----
InfoBegin ==
  /\ serverUp /\ pc = "idle"
  /\ CallGetOpts(InfoBaseOpts)
  /\ pc' = "info"
  /\ cur' = [endpoint |-> "info", dir |-> 0]
  /\ resp' = NoResp
  /\ UNCHANGED <<serverUp, nextId, dirs, files, task, waited, removedBy>>

InfoRun ==
  /\ serverUp /\ pc = "info"
  /\ \/ Finish([NoResp EXCEPT !.endpoint = "info", !.status = 200, !.cause = "ok"])
     \/ \E e \in ErrorTexts :
          Finish([NoResp EXCEPT !.endpoint = "info", !.status = ErrorStatus(e),
                                !.cause = "extract_error", !.errtext = e,
                                !.detail = ErrorDetail("Failed to extract video info:", e)])
  /\ UNCHANGED <<serverUp, nextId, dirs, files, task, waited, removedBy, cookieFile>>

\* ---- POST /stream ----
StreamBegin ==
  /\ serverUp /\ pc = "idle"
  /\ CallGetOpts(StreamBaseOpts)
  /\ pc' = "stream"
  /\ cur' = [endpoint |-> "stream", dir |-> 0]
  /\ resp' = NoResp
  /\ UNCHANGED <<serverUp, nextId, dirs, files, task, waited, removedBy>>

\* the try body of stream_audio: what it returns or raises
StreamBody(formats) ==
  LET audio_url == FindAudioUrl(formats, 1) IN
  IF audio_url = None
  THEN [raised |-> TRUE, text |-> HTTPExceptionStr(404, NO_STREAM_DETAIL), url |-> None]
  ELSE [raised |-> FALSE, text |-> <<>>, url |-> audio_url]

StreamRun ==
  /\ serverUp /\ pc = "stream"
  /\ \/ \E formats \in FormatLists :
          LET b == StreamBody(formats) IN
          IF b.raised
          THEN Finish([NoResp EXCEPT !.endpoint = "stream", !.cause = "no_audio",
                                     !.formats = formats,
                                     !.status = ErrorStatus(b.text),
                                     !.detail = ErrorDetail("Failed to get stream:", b.text)])
          ELSE Finish([NoResp EXCEPT !.endpoint = "stream", !.cause = "ok",
                                     !.formats = formats, !.status = 200, !.url = b.url])
     \/ \E e \in ErrorTexts :
          Finish([NoResp EXCEPT !.endpoint = "stream", !.status = ErrorStatus(e),
                                !.cause = "extract_error", !.errtext = e,
                                !.detail = ErrorDetail("Failed to get stream:", e)])
  /\ UNCHANGED <<serverUp, nextId, dirs, files, task, waited, removedBy, cookieFile>>

\* ---- POST /download ----
\* lines 371-399: uuid4, mkdir of the request's directory, cookie options
DownloadBegin ==
  /\ serverUp /\ pc = "idle"
  /\ nextId < MaxDownloads
  /\ nextId' = nextId + 1
  /\ dirs' = dirs \cup {nextId + 1}
  /\ CallGetOpts(DownloadBaseOpts)
  /\ pc' = "download"
  /\ cur' = [endpoint |-> "download", dir |-> nextId + 1]
  /\ resp' = NoResp
  /\ UNCHANGED <<serverUp, files, task, waited, removedBy>>

\* the try body of download_audio after ydl.download returned:
\* glob for the requested extension, raise when nothing matches
DownloadBody(found) ==
  IF ~found
  THEN [raised |-> TRUE, text |-> HTTPExceptionStr(500, FILE_NOT_FOUND_DETAIL)]
  ELSE [raised |-> FALSE, text |-> <<>>]

\* the except clause of download_audio: rmtree of the request's directory
DownloadExcept(d, cause, errtext, text) ==
  /\ dirs' = dirs \ {d}
  /\ files' = files \ {d}
  /\ removedBy' = [removedBy EXCEPT ![d] = "handler"]
  /\ Finish([NoResp EXCEPT !.endpoint = "download", !.dir = d, !.cause = cause,
                           !.errtext = errtext,
                           !.status = ErrorStatus(text),
                           !.detail = ErrorDetail("Download failed:", text)])
  /\ UNCHANGED <<task, waited>>

\* lines 418-427: add_task(cleanup_file, output_path) and the FileResponse
DownloadReturn(d) ==
  /\ dirs' = dirs
  /\ files' = files \cup {d}
  /\ task' = [task EXCEPT ![d] = "sleeping"]
  /\ waited' = [waited EXCEPT ![d] = 0]
  /\ Finish([NoResp EXCEPT !.endpoint = "download", !.dir = d, !.cause = "ok",
                           !.status = 200])
  /\ UNCHANGED removedBy

DownloadRun ==
  /\ serverUp /\ pc = "download"
  /\ LET d == cur.dir IN
     \/ \E e \in ErrorTexts : DownloadExcept(d, "extract_error", e, e)
     \/ \E found \in BOOLEAN :
          LET b == DownloadBody(found) IN
          IF b.raised
          THEN DownloadExcept(d, "file_missing", <<>>, b.text)
          ELSE DownloadReturn(d)
  /\ UNCHANGED <<serverUp, nextId, cookieFile>>

\* ---- background task: sleep(60), then rmtree ----
Tick ==
  /\ \E d \in Ids : task[d] = "sleeping" /\ waited[d] < CLEANUP_DELAY
  /\ waited' = [d \in Ids |-> IF task[d] = "sleeping"
                              THEN Min(waited[d] + TickStep, CLEANUP_DELAY)
                              ELSE waited[d]]
  /\ UNCHANGED <<serverUp, nextId, dirs, files, task, removedBy,
                 cookieFile, pc, cur, opts, call, resp>>

\* variant: the task removes the directory without sleeping first
cleanup_file_no_sleep(d) ==
  /\ serverUp /\ pc = "idle"
  /\ task[d] = "sleeping"
  /\ task' = [task EXCEPT ![d] = "done"]
  /\ dirs' = dirs \ {d}
  /\ files' = files \ {d}
  /\ removedBy' = [removedBy EXCEPT ![d] = IF d \in dirs THEN "cleanup" ELSE @]
  /\ UNCHANGED <<serverUp, nextId, waited, cookieFile, pc, cur, opts, call, resp>>

cleanup_file(d) ==
  /\ serverUp /\ pc = "idle"
  /\ task[d] = "sleeping"
  /\ waited[d] >= CLEANUP_DELAY
  /\ task' = [task EXCEPT ![d] = "done"]
  /\ dirs' = dirs \ {d}
  /\ files' = files \ {d}
  /\ removedBy' = [removedBy EXCEPT ![d] = IF d \in dirs THEN "cleanup" ELSE @]
  /\ UNCHANGED <<serverUp, nextId, waited, cookieFile, pc, cur, opts, call, resp>>

\* ---- cookie endpoints ----
upload_cookies ==
  /\ serverUp /\ pc = "idle"
  /\ \E endsWithTxt \in BOOLEAN :
       IF endsWithTxt
       THEN /\ cookieFile' = UploadedFile
            /\ resp' = [NoResp EXCEPT !.endpoint = "cookies/upload", !.status = 200,
                                      !.cause = "ok"]
       ELSE /\ cookieFile' = cookieFile
            /\ resp' = [NoResp EXCEPT !.endpoint = "cookies/upload", !.status = 400,
                                      !.cause = "bad_name",
                                      !.detail = <<"Cookie file must be a .txt file">>]
  /\ UNCHANGED <<serverUp, nextId, dirs, files, task, waited, removedBy,
                 pc, cur, opts, call>>

delete_cookies ==
  /\ serverUp /\ pc = "idle"
  /\ IF cookieFile # NoFile
     THEN /\ cookieFile' = NoFile
          /\ resp' = [NoResp EXCEPT !.endpoint = "cookies/delete", !.status = 200,
                                    !.cause = "ok"]
     ELSE /\ cookieFile' = cookieFile
          /\ resp' = [NoResp EXCEPT !.endpoint = "cookies/delete", !.status = 404,
                                    !.cause = "missing",
                                    !.detail = <<"No cookie file found">>]
  /\ UNCHANGED <<serverUp, nextId, dirs, files, task, waited, removedBy,
                 pc, cur, opts, call>>

extract_cookies ==
  /\ serverUp /\ pc = "idle"
  /\ \E env \in BrowserEnvs :
       LET x == extract_browser_cookies_to_file(env, cookieFile) IN
       /\ cookieFile' = x.file
       /\ resp' = IF x.ok
                  THEN [NoResp EXCEPT !.endpoint = "cookies/extract", !.status = 200,
                                      !.cause = "ok"]
                  ELSE [NoResp EXCEPT !.endpoint = "cookies/extract", !.status = 500,
                                      !.cause = "no_browser",
                                      !.detail = <<"Failed to extract cookies from any browser. Try uploading a cookie file manually.">>]
  /\ UNCHANGED <<serverUp, nextId, dirs, files, task, waited, removedBy,
                 pc, cur, opts, call>>

Next ==
  \/ startup_event
  \/ Stop
  \/ InfoBegin
  \/ InfoRun
  \/ StreamBegin
  \/ StreamRun
  \/ DownloadBegin
  \/ DownloadRun
  \/ Tick
  \/ \E d \in Ids : cleanup_file(d)
  \/ upload_cookies
  \/ delete_cookies
  \/ extract_cookies

Spec == Init /\ [][Next]_vars

\* The event loop runs every due callback, time passes, a started handler
\* finishes, and a stopped server is started again.
FairSpec ==
  /\ Spec
  /\ WF_vars(startup_event)
  /\ WF_vars(Tick)
  /\ WF_vars(InfoRun)
  /\ WF_vars(StreamRun)
  /\ WF_vars(DownloadRun)
  /\ \A d \in Ids : SF_vars(cleanup_file(d))

TypeOK ==
  /\ serverUp \in BOOLEAN
  /\ nextId \in 0..MaxDownloads
  /\ dirs \subseteq Ids
  /\ files \subseteq dirs
  /\ task \in [Ids -> {"none", "sleeping", "done", "lost"}]
  /\ waited \in [Ids -> 0..CLEANUP_DELAY]
  /\ pc \in {"idle", "info", "stream", "download"}

\* ---- properties ----

\* C1: a directory of a successful POST /download holds the downloaded file
\* when the response is returned, its cleanup task is scheduled only once
\* the file was found, nothing removes the directory while the server keeps
\* running until that task has waited CLEANUP_DELAY seconds, and the task
\* then removes it.
C1_Step(d) ==
  /\ (task[d] = "none" /\ task'[d] = "sleeping") => (d \in dirs' /\ d \in files')
  /\ (resp' # resp /\ resp'.endpoint = "download" /\ resp'.status = 200 /\ resp'.dir = d)
       => (d \in dirs' /\ d \in files' /\ task'[d] = "sleeping" /\ waited'[d] = 0)
  /\ (task[d] # "none" /\ d \in dirs /\ d \notin dirs' /\ serverUp /\ serverUp')
       => (task[d] = "sleeping" /\ waited[d] >= CLEANUP_DELAY /\ task'[d] = "done")

C1_DownloadDirLifetime ==
  /\ [][\A d \in Ids : C1_Step(d)]_vars
  /\ \A d \in Ids :
       (task[d] = "sleeping") ~>
         ((task[d] = "done" /\ d \notin dirs /\ removedBy[d] = "cleanup") \/ ~serverUp)

C1_Witness ==
  \E d \in Ids : /\ serverUp
                 /\ task[d] = "done"
                 /\ removedBy[d] = "cleanup"
                 /\ d \notin dirs

\* C2: with use_cookies and a stored cookie file, the options returned by
\* get_ydl_opts_with_cookies carry cookiefile = the stored file and no
\* cookiesfrombrowser key, no browser store is read and the file is unchanged.
C2_StoredCookieFileFirst ==
  (pc # "idle" /\ call.use_cookies /\ call.fileBefore # NoFile) =>
    /\ "cookiefile" \in DOMAIN opts
    /\ opts["cookiefile"] = COOKIE_PATH
    /\ "cookiesfrombrowser" \notin DOMAIN opts
    /\ call.reads = {}
    /\ cookieFile = call.fileBefore

C2_Witness ==
  /\ pc = "download"
  /\ call.use_cookies
  /\ call.fileBefore = UploadedFile
  /\ "cookiefile" \in DOMAIN opts

\* C3 (as claimed): with use_cookies, no stored cookie file, extraction
\* failing for every browser and no browser usable directly, the returned
\* options contain neither cookiefile nor cookiesfrombrowser.
C3_NoCookiesFallback ==
  (pc # "idle" /\ call.use_cookies /\ call.fileBefore = NoFile
     /\ ~call.extractOK /\ ~call.anyDirect) =>
    /\ "cookiefile" \notin DOMAIN opts
    /\ "cookiesfrombrowser" \notin DOMAIN opts

\* C4 (as claimed): a finished download that left no file with the requested
\* extension is answered with status 500 and detail "Download completed but
\* file not found".
C4_FileNotFoundIs500 ==
  (resp.endpoint = "download" /\ resp.cause = "file_missing") =>
    (resp.status = 500 /\ resp.detail = FILE_NOT_FOUND_DETAIL)

\* C5 (as claimed): POST /stream answers with the url of the first audio-only
\* format in list order; without such a format, or when it has no url, the
\* answer is status 404 with detail "No suitable audio stream found".
C5_AudioOnly(formats) ==
  {i \in 1..Len(formats) : formats[i].acodec # "none" /\ formats[i].vcodec = "none"}

C5_First(formats) ==
  CHOOSE i \in C5_AudioOnly(formats) : \A j \in C5_AudioOnly(formats) : i <= j

C5_StreamFirstAudioOr404 ==
  (resp.endpoint = "stream" /\ resp.cause \in {"ok", "no_audio"}) =>
    IF C5_AudioOnly(resp.formats) # {} /\ resp.formats[C5_First(resp.formats)].url # None
    THEN resp.status = 200 /\ resp.url = resp.formats[C5_First(resp.formats)].url
    ELSE resp.status = 404 /\ resp.detail = NO_STREAM_DETAIL

\* C6: on /info, /download and /stream a failure of the extraction library is
\* answered with 401 exactly when the error text contains "Sign in to
\* confirm", with 400 otherwise, and never with a success status.
C6_HasSignIn(t) ==
  \E i \in 1..Len(t) :
    /\ i + 3 <= Len(t)
    /\ t[i] = "Sign" /\ t[i + 1] = "in" /\ t[i + 2] = "to" /\ t[i + 3] = "confirm"

C6_ExtractionFailureStatus ==
  (resp.cause = "extract_error") =>
    /\ resp.endpoint \in {"info", "download", "stream"}
    /\ (resp.status = 401) <=> C6_HasSignIn(resp.errtext)
    /\ (resp.status = 400) <=> ~C6_HasSignIn(resp.errtext)
    /\ resp.status \in {400, 401}

C6_Witness ==
  /\ resp.endpoint = "download"
  /\ resp.cause = "extract_error"
  /\ resp.status = 401
  /\ Len(resp.errtext) > Len(SIGN_IN)

\* C7: when startup_event has completed the temp directory has no
\* subdirectory; a directory whose cleanup task was lost with a stopped
\* server is gone once the server is up again, and every directory created by
\* /download is eventually removed.
C7_StartupClearsTemp ==
  /\ [][(~serverUp /\ serverUp') => (dirs' = {} /\ files' = {})]_vars
  /\ [](\A d \in Ids : (task[d] = "lost" /\ serverUp) => d \notin dirs)
  /\ \A d \in Ids : (d \in dirs) ~> (d \notin dirs)

C7_Witness ==
  \E d \in Ids : /\ serverUp
                 /\ task[d] = "lost"
                 /\ removedBy[d] = "startup"
                 /\ d \notin dirs
====
